---- MODULE Spec2Model ----
(***************************************************************************)
(* Model of examples/simple_player.py: the interactive RAOP player.        *)
(*                                                                         *)
(* Two threads share the global `status` and the RaopClient handle:        *)
(*   - the main thread (connect, optional delayed start, streaming loop,   *)
(*     teardown), position pcMain;                                         *)
(*   - the daemon key listener thread running handle_key_event for every   *)
(*     key, position pcKey.                                                *)
(* Every shared read, shared write, clock read and client call is one      *)
(* step, so that all interleavings of the two threads are explored.        *)
(* Statements that touch only thread-local variables are merged into the   *)
(* neighbouring step.  Before the listener is started the main thread is   *)
(* alone and its steps follow the blocks of the source.                    *)
(*                                                                         *)
(* libraop (RaopClient, get_ntp, the MS2NTP... conversions) is not part of *)
(* the source file; it is modelled from the specification.  The shared     *)
(* time domain is a fixed-point clock with NtpScale units per second (the  *)
(* library uses 2^32; the scale is reduced to keep values small).          *)
(***************************************************************************)
EXTENDS Integers, Sequences, FiniteSets, TLC

\* ------------------------------------------------------------------ bounds
MaxTicks == 2
ClockStart == 32
MaxKeys == 2
MaxChunks == 2
MaxMs == 1100

\* --------------------------------------------------------------- constants
PLAYING == "playing"
STOPPED == "stopped"
PAUSED == "paused"

NtpScale == 2 ^ 10
SampleRate == 44100
MAX_SAMPLES_PER_CHUNK == 352
BytesPerFrame == 4
ChunkBytes == MAX_SAMPLES_PER_CHUNK * BytesPerFrame
RestartDelayMs == 200
StatusPeriodMs == 1000
KeepalivePeriodMs == 30000

Keys == {"s", "q", "p", "r", "x"}
ClockSteps == {NtpScale, 30 * NtpScale}
Latencies == {MAX_SAMPLES_PER_CHUNK}
MsValues == 0 .. MaxMs
ArgOutcomes == {"stream", "dump", "unwritable", "rejected", "help"}
StartArgs == {0, 8 * NtpScale}
WaitArgs == {0, 1500}
FileLens == {0, ChunkBytes + 2, MaxChunks * ChunkBytes + BytesPerFrame}

\* ------------------------------------------------- clock service (libraop)
MS2NTP(ms) == (ms * NtpScale) \div 1000
NTP2MS(ntp) == (ntp * 1000) \div NtpScale
TS2NTP(ts, rate) == (ts * NtpScale) \div rate
MS2TS(ms, rate) == (ms * rate) \div 1000
TS2MSPerKiloRate(ts, rate) == ts \div (rate \div 1000)
TS2MS(ts, rate) == NTP2MS(TS2NTP(ts, rate))

Min(a, b) == IF a < b THEN a ELSE b

VARIABLES
    \* program state
    status,          \* global status (PLAYING / PAUSED / STOPPED), "unset" before line 153
    now,             \* main thread: now of the current loop iteration
    start,           \* main thread: NTP at which streaming began
    last,            \* main thread: time of the last status update
    frames,          \* main thread: frames transferred
    last_keepalive,  \* main thread: time of the last keepalive
    iterate,         \* main thread: loop condition
    data,            \* main thread: length of the chunk just read
    remaining,       \* bytes left in infile
    interactive,     \* args.interactive
    key,             \* listener: key being handled
    hnow,            \* listener: now of the restart branch
    hstart_at,       \* listener: start_at of the restart branch
    pcMain,          \* position of the main thread
    pcKey,           \* position of the listener thread
    exitCode,        \* process exit status, -1 while running
    \* environment
    clock,           \* shared clock read by get_ntp()
    ticks,           \* number of clock advances so far
    is_playing,      \* client.is_playing
    latency,         \* client.latency after connect
    stopCalled,      \* client: stop() has been invoked
    \* observation of the current handler / iteration
    keysLeft,        \* keys still to be pressed
    hcalls,          \* client calls made by the handler for the current key
    hstatus0,        \* status when the current key started being handled
    exitRequested,   \* the handler has called exit(0)
    halted,          \* pause()/stop() invoked and no restart handled since
    raceSend,        \* the send_chunk of this iteration was invoked while halted
    seenStatus,      \* iteration: status read at line 179 ("none" if not read)
    seenAccept,      \* iteration: accept_frames() answer ("none" if not called)
    seenRemaining,   \* iteration: bytes left when infile.read was called (-1 if not called)
    sentThis,        \* iteration: bytes passed to send_chunk
    totalSent,       \* bytes passed to send_chunk so far
    fileLen,         \* size of the input file
    seenPlaying,     \* value of client.is_playing read at line 183 ("none" inside an iteration)
    chunksSent,      \* number of send_chunk calls so far
    kaFired,         \* iteration: keepalive() was invoked
    kaPrev,          \* iteration: last_keepalive before the iteration
    kaStatus,        \* iteration: status while the keepalive branch ran
    stFired,         \* iteration: the periodic status line was printed
    stPrev,          \* iteration: now of the previous status line (-1 if none)
    lastEmit,        \* now of the latest status line (-1 if none)
    lastPrev,        \* iteration: last before the iteration
    connectOk,       \* result of client.connect ("none" before the call)
    mcalls,          \* client calls of the main thread before and after the loop
    argWait,         \* args.wait as read by the delayed start (0 once streaming began)
    \* unit conversions applied on their own
    pcConv,          \* "off", or "ms" -> "ts" -> "done"
    cvMs,            \* a millisecond value
    cvTicks,         \* MS2TS of it at the session rate
    cvBack           \* the ticks converted back to milliseconds

progVars == <<status, now, start, last, frames, last_keepalive, iterate, data,
              remaining, interactive, key, hnow, hstart_at, pcMain, pcKey, exitCode>>
envVars == <<clock, ticks, is_playing, latency, stopCalled>>
keyObs == <<keysLeft, hcalls, hstatus0, exitRequested, halted, raceSend>>
topObs == <<kaFired, kaPrev, kaStatus, stFired, stPrev, lastEmit, lastPrev>>
loopObs == <<seenStatus, seenAccept, seenRemaining, sentThis, totalSent, chunksSent,
             fileLen, seenPlaying, topObs>>
mainObs == <<connectOk, mcalls, argWait>>
convVars == <<pcConv, cvMs, cvTicks, cvBack>>
vars == <<progVars, envVars, keyObs, loopObs, mainObs, convVars>>

mainLocals == <<now, start, last, frames, last_keepalive, iterate, data, remaining>>
keyLocals == <<key, hnow, hstart_at>>

\* ----------------------------------------------------- decisions of the code
\* line 80: the stop / quit branch
IsStopKey(k) == k = "s" \/ k = "q"

\* lines 82-83: the client calls of the stop branch, in program order
StopCallsSwapped == <<"flush", "stop">>
StopCalls == <<"stop", "flush">>

\* line 88: the pause branch
PauseAppliesAnyState(k, st) == k = "p"
PauseApplies(k, st) == k = "p" /\ st = PLAYING

\* lines 90-91: the client calls of the pause branch, in program order
PauseCallsSwapped == <<"flush", "pause">>
PauseCalls == <<"pause", "flush">>

\* line 94: the restart branch
IsRestartKey(k) == k = "r"

\* line 96: start_at of a restart
RestartStartAtPlusLatency(n, lat, rate) == n + MS2NTP(RestartDelayMs) + TS2NTP(lat, rate)
RestartStartAt(n, lat, rate) == n + MS2NTP(RestartDelayMs) - TS2NTP(lat, rate)

\* line 87: exit(0) raises SystemExit in the listener thread, which ends it
AfterExitKeepsListening == "wait"
AfterExit == "dead"

\* line 131: where the main thread goes after client.connect returned ok
AfterConnectIgnoresResult(ok) == "delay"
AfterConnect(ok) == IF ok THEN "delay" ELSE "failed"

\* line 142: the delayed start applies
DelayApplies(st, w) == st /= 0 \/ w /= 0

\* lines 144-145: start_at of the delayed start
ComputeStartFromNow(st, n, w, lat, rate) == n + MS2NTP(w) - TS2NTP(lat, rate)
ComputeStart(st, n, w, lat, rate) ==
    (IF st /= 0 THEN st ELSE n) + MS2NTP(w) - TS2NTP(lat, rate)

\* line 165: the status branch
StatusDueAlways(n, l) == TRUE
StatusDueAtLeast(n, l) == n - l >= MS2NTP(StatusPeriodMs)
StatusDue(n, l) == n - l > MS2NTP(StatusPeriodMs)

\* line 167: the status line is printed
StatusPrints(fr, lat) == fr /= 0 /\ fr > lat

\* line 172: the keepalive branch
KeepaliveDueWhilePlaying(n, lk, st) == st = PLAYING /\ NTP2MS(n - lk) >= KeepalivePeriodMs
KeepaliveDue(n, lk, st) == NTP2MS(n - lk) >= KeepalivePeriodMs

\* line 179, first conjunct
MayStreamUnlessStopped(st) == st /= STOPPED
MayStream(st) == st = PLAYING

\* line 179, infile.read(MAX_SAMPLES_PER_CHUNK*4): length of the bytes returned
ReadLen(rem) == Min(ChunkBytes, rem)

\* line 181: frames added for a chunk of n bytes
FramesOfPerSample(n) == n \div 2
FramesOf(n) == n \div BytesPerFrame

\* line 183: the loop condition
IterateWhileData(playing, st, rem) == playing /\ rem > 0
IterateValue(playing, st, rem) == playing

\* ---------------------------------------------------------------- initial
Init ==
    /\ status = "unset"
    /\ now = 0 /\ start = 0 /\ last = 0 /\ frames = 0 /\ last_keepalive = 0
    /\ iterate = TRUE /\ data = 0
    /\ fileLen \in FileLens
    /\ remaining = fileLen
    /\ interactive \in BOOLEAN
    /\ key = "none" /\ hnow = 0 /\ hstart_at = 0
    /\ pcMain = "args" /\ pcKey = "off" /\ exitCode = -1
    /\ clock = ClockStart /\ ticks = 0
    /\ is_playing = FALSE
    /\ latency \in Latencies
    /\ stopCalled = FALSE
    /\ keysLeft = MaxKeys
    /\ hcalls = <<>> /\ hstatus0 = "none"
    /\ exitRequested = FALSE /\ halted = FALSE /\ raceSend = FALSE
    /\ seenStatus = "none" /\ seenAccept = "none" /\ seenRemaining = -1
    /\ sentThis = 0 /\ totalSent = 0
    /\ seenPlaying = "none"
    /\ chunksSent = 0
    /\ kaFired = FALSE /\ kaPrev = 0 /\ kaStatus = "none"
    /\ stFired = FALSE /\ stPrev = -1 /\ lastEmit = -1 /\ lastPrev = 0
    /\ connectOk = "none" /\ mcalls = <<>> /\ argWait = 0
    /\ pcConv = "off" /\ cvMs = 0 /\ cvTicks = 0 /\ cvBack = 0

Running == exitCode = -1

\* get_ntp(): the clock has advanced by d since the previous reading (d = 0:
\* the same reading again); readings never decrease
GetNtp(d) ==
    /\ d = 0 \/ ticks < MaxTicks
    /\ clock' = clock + d
    /\ ticks' = IF d = 0 THEN ticks ELSE ticks + 1

\* ------------------------------------------------------------- main thread
\* lines 101-112: parse the arguments.  argparse ends the process itself for
\* a command line it rejects (status 2) and for -h (status 0); with an ntp
\* file, get_ntp() is written to it and exit() ends the process with 0, and
\* an ntp file that cannot be written raises (status 1)
ParseArgs(outcome) ==
    /\ Running /\ pcMain = "args"
    /\ pcMain' = CASE outcome = "stream" -> "setup"
                   [] outcome = "dump" -> "dumped"
                   [] outcome = "unwritable" -> "crashed"
                   [] outcome = "rejected" -> "rejected"
                   [] outcome = "help" -> "helped"
    /\ exitCode' = CASE outcome = "stream" -> exitCode
                    [] outcome = "dump" -> 0
                    [] outcome = "unwritable" -> 1
                    [] outcome = "rejected" -> 2
                    [] outcome = "help" -> 0
    /\ UNCHANGED <<status, mainLocals, interactive, keyLocals, pcKey>>
    /\ UNCHANGED <<envVars, keyObs, loopObs, mainObs>>
    /\ UNCHANGED convVars

\* lines 114-128: create the client, start = args.start (or the start file),
\* open the input file; a file that cannot be opened, or a start file that
\* does not hold an integer, raises and ends the process with status 1
Setup(st, opened) ==
    /\ Running /\ pcMain = "setup"
    /\ start' = st
    /\ pcMain' = IF opened THEN "connect" ELSE "crashed"
    /\ exitCode' = IF opened THEN exitCode ELSE 1
    /\ UNCHANGED <<status, now, last, frames, last_keepalive, iterate, data, remaining,
                   interactive, keyLocals, pcKey>>
    /\ UNCHANGED <<envVars, keyObs, loopObs, mainObs>>
    /\ UNCHANGED convVars

\* lines 131-134: client.connect; on failure destroy and exit(1)
Connect(ok) ==
    /\ Running /\ pcMain = "connect"
    /\ connectOk' = IF ok THEN "true" ELSE "false"
    /\ is_playing' = ok
    /\ pcMain' = AfterConnect(ok)
    /\ UNCHANGED <<status, mainLocals, interactive, keyLocals, pcKey, exitCode>>
    /\ UNCHANGED <<clock, ticks, latency, stopCalled>>
    /\ UNCHANGED <<keyObs, loopObs, mcalls, argWait>>
    /\ UNCHANGED convVars

\* lines 132-134: client.destroy(); exit(1)
ConnectFailed ==
    /\ Running /\ pcMain = "failed"
    /\ mcalls' = Append(mcalls, <<"destroy", 0>>)
    /\ exitCode' = 1
    /\ pcMain' = "aborted"
    /\ UNCHANGED <<status, mainLocals, interactive, keyLocals, pcKey>>
    /\ UNCHANGED <<envVars, keyObs, loopObs, connectOk, argWait>>
    /\ UNCHANGED convVars

\* lines 139-148: wait = args.wait; the delayed start
DelayedStart(w) ==
    /\ Running /\ pcMain = "delay"
    /\ argWait' = w
    /\ GetNtp(0)
    /\ now' = IF DelayApplies(start, w) THEN clock' ELSE now
    /\ mcalls' = IF DelayApplies(start, w)
                 THEN << <<"start_at", ComputeStart(start, clock', w, latency, SampleRate)>> >>
                 ELSE <<>>
    /\ pcMain' = "begin"
    /\ UNCHANGED <<status, start, last, frames, last_keepalive, iterate, data, remaining,
                   interactive, keyLocals, pcKey, exitCode>>
    /\ UNCHANGED <<is_playing, latency, stopCalled, keyObs, loopObs, connectOk>>
    /\ UNCHANGED convVars

\* lines 151-159: begin streaming, start the key listener in interactive mode
Begin(d) ==
    /\ Running /\ pcMain = "begin"
    /\ GetNtp(d)
    /\ start' = clock'
    /\ last' = 0 /\ frames' = 0 /\ last_keepalive' = clock'
    /\ status' = PLAYING
    /\ pcKey' = IF interactive THEN "wait" ELSE pcKey
    /\ iterate' = TRUE
    /\ pcMain' = "top"
    /\ mcalls' = <<>> /\ argWait' = 0
    /\ UNCHANGED <<now, data, remaining, interactive, keyLocals, exitCode>>
    /\ UNCHANGED <<is_playing, latency, stopCalled, keyObs, loopObs, connectOk>>
    /\ UNCHANGED convVars

\* lines 162-175: read the clock, status update, the keepalive test
LoopTop(d) ==
    /\ Running /\ pcMain = "top"
    /\ GetNtp(d)
    /\ now' = clock'
    /\ last' = IF StatusDue(clock', last) THEN clock' ELSE last
    /\ lastPrev' = last
    /\ stFired' = (StatusDue(clock', last) /\ StatusPrints(frames, latency))
    /\ stPrev' = IF stFired' THEN lastEmit ELSE -1
    /\ lastEmit' = IF stFired' THEN clock' ELSE lastEmit
    /\ kaPrev' = last_keepalive
    /\ kaStatus' = "none"
    /\ kaFired' = FALSE
    /\ last_keepalive' = IF KeepaliveDue(clock', last_keepalive, status)
                         THEN clock' ELSE last_keepalive
    /\ seenPlaying' = "none"
    /\ pcMain' = IF KeepaliveDue(clock', last_keepalive, status) THEN "keepalive" ELSE "check"
    /\ UNCHANGED <<status, start, frames, iterate, data, remaining, interactive,
                   keyLocals, pcKey, exitCode>>
    /\ UNCHANGED <<is_playing, latency, stopCalled, keyObs, seenStatus, seenAccept, seenRemaining,
                   sentThis, totalSent, chunksSent, fileLen>>
    /\ UNCHANGED mainObs
    /\ UNCHANGED convVars

\* line 176: client.keepalive()
LoopKeepalive ==
    /\ Running /\ pcMain = "keepalive"
    /\ kaFired' = TRUE
    /\ kaStatus' = status
    /\ pcMain' = "check"
    /\ UNCHANGED <<status, mainLocals, interactive, keyLocals, pcKey, exitCode>>
    /\ UNCHANGED <<envVars, keyObs>>
    /\ UNCHANGED <<seenStatus, seenAccept, seenRemaining, sentThis, totalSent, chunksSent,
                   fileLen, seenPlaying, kaPrev, stFired, stPrev, lastEmit, lastPrev>>
    /\ UNCHANGED mainObs
    /\ UNCHANGED convVars

\* line 179: status == PLAYING
LoopCheck ==
    /\ Running /\ pcMain = "check"
    /\ seenStatus' = status
    /\ pcMain' = IF MayStream(status) THEN "accept" ELSE "iter"
    /\ kaFired' = FALSE /\ kaPrev' = last_keepalive /\ kaStatus' = "none"
    /\ stFired' = FALSE /\ stPrev' = -1 /\ lastPrev' = last
    /\ UNCHANGED <<status, mainLocals, interactive, keyLocals, pcKey, exitCode>>
    /\ UNCHANGED <<envVars, keyObs>>
    /\ UNCHANGED <<seenAccept, seenRemaining, sentThis, totalSent, chunksSent, fileLen,
                   seenPlaying, lastEmit>>
    /\ UNCHANGED mainObs
    /\ UNCHANGED convVars

\* line 179: client.accept_frames()
LoopAccept(ans) ==
    /\ Running /\ pcMain = "accept"
    /\ seenAccept' = IF ans THEN "true" ELSE "false"
    /\ pcMain' = IF ans THEN "read" ELSE "iter"
    /\ UNCHANGED <<status, mainLocals, interactive, keyLocals, pcKey, exitCode>>
    /\ UNCHANGED <<envVars, keyObs>>
    /\ UNCHANGED <<seenStatus, seenRemaining, sentThis, totalSent, chunksSent, fileLen,
                   seenPlaying, topObs>>
    /\ UNCHANGED mainObs
    /\ UNCHANGED convVars

\* line 179: data := infile.read(MAX_SAMPLES_PER_CHUNK*4)
LoopRead ==
    /\ Running /\ pcMain = "read"
    /\ seenRemaining' = remaining
    /\ data' = ReadLen(remaining)
    /\ remaining' = remaining - ReadLen(remaining)
    /\ pcMain' = IF ReadLen(remaining) > 0 THEN "send" ELSE "iter"
    /\ UNCHANGED <<status, now, start, last, frames, last_keepalive, iterate,
                   interactive, keyLocals, pcKey, exitCode>>
    /\ UNCHANGED <<envVars, keyObs>>
    /\ UNCHANGED <<seenStatus, seenAccept, sentThis, totalSent, chunksSent, fileLen,
                   seenPlaying, topObs>>
    /\ UNCHANGED mainObs
    /\ UNCHANGED convVars

\* lines 180-181: client.send_chunk(data); frames += len(data) // 4
LoopSend ==
    /\ Running /\ pcMain = "send"
    /\ sentThis' = data
    /\ totalSent' = totalSent + data
    /\ chunksSent' = chunksSent + 1
    /\ frames' = frames + FramesOf(data)
    /\ raceSend' = halted
    /\ pcMain' = "iter"
    /\ UNCHANGED <<status, now, start, last, last_keepalive, iterate, data,
                   remaining, interactive, keyLocals, pcKey, exitCode>>
    /\ UNCHANGED <<envVars, keysLeft, hcalls, hstatus0, exitRequested, halted>>
    /\ UNCHANGED <<seenStatus, seenAccept, seenRemaining, fileLen,
                   seenPlaying, topObs>>
    /\ UNCHANGED mainObs
    /\ UNCHANGED convVars

\* line 183 and the test of line 161
LoopIterate ==
    /\ Running /\ pcMain = "iter"
    /\ seenPlaying' = IF is_playing THEN "true" ELSE "false"
    /\ iterate' = IterateValue(is_playing, status, remaining)
    /\ pcMain' = IF IterateValue(is_playing, status, remaining) THEN "top" ELSE "close"
    /\ seenStatus' = "none" /\ seenAccept' = "none" /\ seenRemaining' = -1
    /\ sentThis' = 0 /\ raceSend' = FALSE
    /\ UNCHANGED <<status, now, start, last, frames, last_keepalive, data,
                   remaining, interactive, keyLocals, pcKey, exitCode>>
    /\ UNCHANGED <<envVars, keysLeft, hcalls, hstatus0, exitRequested, halted>>
    /\ UNCHANGED <<totalSent, chunksSent, fileLen, topObs>>
    /\ UNCHANGED mainObs
    /\ UNCHANGED convVars

\* lines 186-187: infile.close(); client.disconnect()
Disconnect ==
    /\ Running /\ pcMain = "close"
    /\ mcalls' = Append(mcalls, <<"disconnect", 0>>)
    /\ pcMain' = "destroy"
    /\ UNCHANGED <<status, mainLocals, interactive, keyLocals, pcKey, exitCode>>
    /\ UNCHANGED <<envVars, keyObs, loopObs, connectOk, argWait>>
    /\ UNCHANGED convVars

\* line 188: client.destroy()
Destroy ==
    /\ Running /\ pcMain = "destroy"
    /\ mcalls' = Append(mcalls, <<"destroy", 0>>)
    /\ pcMain' = "exiting"
    /\ UNCHANGED <<status, mainLocals, interactive, keyLocals, pcKey, exitCode>>
    /\ UNCHANGED <<envVars, keyObs, loopObs, connectOk, argWait>>
    /\ UNCHANGED convVars

\* after line 188: the main thread has ended; the interpreter shuts down and
\* the process exits with 0, which ends the daemon listener wherever it is
ProcessExit ==
    /\ Running /\ pcMain = "exiting"
    /\ pcMain' = "done"
    /\ exitCode' = 0
    /\ UNCHANGED <<status, mainLocals, interactive, keyLocals, pcKey>>
    /\ UNCHANGED <<envVars, keyObs, loopObs, mainObs>>
    /\ UNCHANGED convVars

\* --------------------------------------------------------- listener thread
\* the handler invokes client.<m>(arg)
HandlerCall(m, arg) ==
    /\ hcalls' = Append(hcalls, <<m, arg>>)
    /\ stopCalled' = (stopCalled \/ m = "stop")
    /\ halted' = IF m \in {"pause", "stop"} THEN TRUE
                 ELSE IF m = "start_at" THEN FALSE
                 ELSE halted

\* lines 66-68 and 80, 88, 94: getkey() returns k, handle_key_event picks a branch
KeyPress(k) ==
    /\ Running /\ pcKey = "wait" /\ keysLeft > 0
    /\ keysLeft' = keysLeft - 1
    /\ key' = k
    /\ hcalls' = <<>>
    /\ hstatus0' = status
    /\ pcKey' = IF IsStopKey(k) THEN "s_stop"
                ELSE IF PauseApplies(k, status) THEN "p_pause"
                ELSE IF IsRestartKey(k) THEN "r_now"
                ELSE "ret"
    /\ UNCHANGED <<status, mainLocals, interactive, hnow, hstart_at, pcMain, exitCode>>
    /\ UNCHANGED <<envVars, exitRequested, halted, raceSend, loopObs>>
    /\ UNCHANGED mainObs
    /\ UNCHANGED convVars

\* line 82: client.stop()
KeyStop ==
    /\ Running /\ pcKey = "s_stop"
    /\ HandlerCall(StopCalls[1], 0)
    /\ pcKey' = "s_flush"
    /\ UNCHANGED <<status, mainLocals, interactive, keyLocals, pcMain, exitCode>>
    /\ UNCHANGED <<clock, ticks, is_playing, latency>>
    /\ UNCHANGED <<keysLeft, hstatus0, exitRequested, raceSend, loopObs>>
    /\ UNCHANGED mainObs
    /\ UNCHANGED convVars

\* line 83: client.flush()
KeyStopFlush ==
    /\ Running /\ pcKey = "s_flush"
    /\ HandlerCall(StopCalls[2], 0)
    /\ pcKey' = "s_status"
    /\ UNCHANGED <<status, mainLocals, interactive, keyLocals, pcMain, exitCode>>
    /\ UNCHANGED <<clock, ticks, is_playing, latency>>
    /\ UNCHANGED <<keysLeft, hstatus0, exitRequested, raceSend, loopObs>>
    /\ UNCHANGED mainObs
    /\ UNCHANGED convVars

\* line 84: status = STOPPED
KeyStopStatus ==
    /\ Running /\ pcKey = "s_status"
    /\ status' = STOPPED
    /\ pcKey' = "s_exit"
    /\ UNCHANGED <<mainLocals, interactive, keyLocals, pcMain, exitCode>>
    /\ UNCHANGED <<envVars, keyObs, loopObs>>
    /\ UNCHANGED mainObs
    /\ UNCHANGED convVars

\* lines 85-87: print, exit(0)
KeyExit ==
    /\ Running /\ pcKey = "s_exit"
    /\ exitRequested' = TRUE
    /\ pcKey' = "exited"
    /\ UNCHANGED <<status, mainLocals, interactive, keyLocals, pcMain, exitCode>>
    /\ UNCHANGED <<envVars, keysLeft, hcalls, hstatus0, halted, raceSend, loopObs>>
    /\ UNCHANGED mainObs
    /\ UNCHANGED convVars

\* line 87: SystemExit unwinds handle_key_event and listen()
KeyThreadEnd ==
    /\ Running /\ pcKey = "exited"
    /\ pcKey' = AfterExit
    /\ key' = "none" /\ hnow' = 0 /\ hstart_at' = 0
    /\ hcalls' = <<>> /\ hstatus0' = "none"
    /\ UNCHANGED <<status, mainLocals, interactive, pcMain, exitCode>>
    /\ UNCHANGED <<envVars, keysLeft, exitRequested, halted, raceSend, loopObs>>
    /\ UNCHANGED mainObs
    /\ UNCHANGED convVars

\* line 90: client.pause()
KeyPause ==
    /\ Running /\ pcKey = "p_pause"
    /\ HandlerCall(PauseCalls[1], 0)
    /\ pcKey' = "p_flush"
    /\ UNCHANGED <<status, mainLocals, interactive, keyLocals, pcMain, exitCode>>
    /\ UNCHANGED <<clock, ticks, is_playing, latency>>
    /\ UNCHANGED <<keysLeft, hstatus0, exitRequested, raceSend, loopObs>>
    /\ UNCHANGED mainObs
    /\ UNCHANGED convVars

\* line 91: client.flush()
KeyPauseFlush ==
    /\ Running /\ pcKey = "p_flush"
    /\ HandlerCall(PauseCalls[2], 0)
    /\ pcKey' = "p_status"
    /\ UNCHANGED <<status, mainLocals, interactive, keyLocals, pcMain, exitCode>>
    /\ UNCHANGED <<clock, ticks, is_playing, latency>>
    /\ UNCHANGED <<keysLeft, hstatus0, exitRequested, raceSend, loopObs>>
    /\ UNCHANGED mainObs
    /\ UNCHANGED convVars

\* lines 92-93: status = PAUSED; print
KeyPauseStatusResetsCursor ==
    /\ Running /\ pcKey = "p_status"
    /\ status' = PAUSED
    /\ frames' = 0
    /\ pcKey' = "ret"
    /\ UNCHANGED <<now, start, last, last_keepalive, iterate, data, remaining, interactive, keyLocals, pcMain, exitCode>>
    /\ UNCHANGED <<envVars, keyObs, loopObs>>
    /\ UNCHANGED mainObs
    /\ UNCHANGED convVars
KeyPauseStatus ==
    /\ Running /\ pcKey = "p_status"
    /\ status' = PAUSED
    /\ pcKey' = "ret"
    /\ UNCHANGED <<mainLocals, interactive, keyLocals, pcMain, exitCode>>
    /\ UNCHANGED <<envVars, keyObs, loopObs>>
    /\ UNCHANGED mainObs
    /\ UNCHANGED convVars

\* lines 95-96: now = get_ntp(); start_at = ...
KeyRestartNow(d) ==
    /\ Running /\ pcKey = "r_now"
    /\ GetNtp(d)
    /\ hnow' = clock'
    /\ hstart_at' = RestartStartAt(clock', latency, SampleRate)
    /\ pcKey' = "r_status"
    /\ UNCHANGED <<status, mainLocals, interactive, key, pcMain, exitCode>>
    /\ UNCHANGED <<is_playing, latency, stopCalled, keyObs, loopObs>>
    /\ UNCHANGED mainObs
    /\ UNCHANGED convVars

\* line 97: status = PLAYING
KeyRestartStatus ==
    /\ Running /\ pcKey = "r_status"
    /\ status' = PLAYING
    /\ pcKey' = "r_start"
    /\ UNCHANGED <<mainLocals, interactive, keyLocals, pcMain, exitCode>>
    /\ UNCHANGED <<envVars, keyObs, loopObs>>
    /\ UNCHANGED mainObs
    /\ UNCHANGED convVars

\* lines 98-99: client.start_at(start_at); print
KeyRestartStart ==
    /\ Running /\ pcKey = "r_start"
    /\ HandlerCall("start_at", hstart_at)
    /\ pcKey' = "ret"
    /\ UNCHANGED <<status, mainLocals, interactive, keyLocals, pcMain, exitCode>>
    /\ UNCHANGED <<clock, ticks, is_playing, latency>>
    /\ UNCHANGED <<keysLeft, hstatus0, exitRequested, raceSend, loopObs>>
    /\ UNCHANGED mainObs
    /\ UNCHANGED convVars

\* line 68: the callback returns, the listener blocks in getkey() again
KeyReturn ==
    /\ Running /\ pcKey = "ret"
    /\ pcKey' = "wait"
    /\ key' = "none" /\ hnow' = 0 /\ hstart_at' = 0
    /\ hcalls' = <<>> /\ hstatus0' = "none"
    /\ UNCHANGED <<status, mainLocals, interactive, pcMain, exitCode>>
    /\ UNCHANGED <<envVars, keysLeft, exitRequested, halted, raceSend, loopObs>>
    /\ UNCHANGED mainObs
    /\ UNCHANGED convVars

\* ------------------------------------------------------------- environment
\* the transport session is no longer active (played out, stopped or failed)
SessionEnd ==
    /\ Running /\ is_playing
    /\ is_playing' = FALSE
    /\ UNCHANGED <<progVars, clock, ticks, latency, stopCalled, keyObs, loopObs>>
    /\ UNCHANGED mainObs
    /\ UNCHANGED convVars

MainStep ==
    \/ \E outcome \in ArgOutcomes : ParseArgs(outcome)
    \/ \E st \in StartArgs, opened \in BOOLEAN : Setup(st, opened)
    \/ \E ok \in BOOLEAN : Connect(ok)
    \/ ConnectFailed
    \/ \E w \in WaitArgs : DelayedStart(w)
    \/ \E d \in ClockSteps \cup {0} : Begin(d)
    \/ \E d \in ClockSteps \cup {0} : LoopTop(d)
    \/ LoopKeepalive
    \/ LoopCheck
    \/ \E ans \in BOOLEAN : LoopAccept(ans)
    \/ LoopRead
    \/ LoopSend
    \/ LoopIterate
    \/ Disconnect
    \/ Destroy
    \/ ProcessExit

KeyStep ==
    \/ \E k \in Keys : KeyPress(k)
    \/ KeyStop
    \/ KeyStopFlush
    \/ KeyStopStatus
    \/ KeyExit
    \/ KeyThreadEnd
    \/ KeyPause
    \/ KeyPauseFlush
    \/ KeyPauseStatus
    \/ \E d \in ClockSteps \cup {0} : KeyRestartNow(d)
    \/ KeyRestartStatus
    \/ KeyRestartStart
    \/ KeyReturn

EnvStep ==
    \/ SessionEnd

Next == MainStep \/ KeyStep \/ EnvStep

Spec == Init /\ [][Next]_vars

\* fair scheduling: the main thread keeps running.  Nothing is assumed of the
\* client: whether and when is_playing turns false is up to the receiver.
\* Started in interactive mode with one file and one clock advance left
LiveInit ==
    /\ status = "unset"
    /\ now = 0 /\ start = 0 /\ last = 0 /\ frames = 0 /\ last_keepalive = 0
    /\ iterate = TRUE /\ data = 0
    /\ fileLen = ChunkBytes + 2
    /\ remaining = fileLen
    /\ interactive = TRUE
    /\ key = "none" /\ hnow = 0 /\ hstart_at = 0
    /\ pcMain = "args" /\ pcKey = "off" /\ exitCode = -1
    /\ clock = ClockStart /\ ticks = MaxTicks - 1
    /\ is_playing = FALSE
    /\ latency \in Latencies
    /\ stopCalled = FALSE
    /\ keysLeft = MaxKeys
    /\ hcalls = <<>> /\ hstatus0 = "none"
    /\ exitRequested = FALSE /\ halted = FALSE /\ raceSend = FALSE
    /\ seenStatus = "none" /\ seenAccept = "none" /\ seenRemaining = -1
    /\ sentThis = 0 /\ totalSent = 0
    /\ seenPlaying = "none"
    /\ chunksSent = 0
    /\ kaFired = FALSE /\ kaPrev = 0 /\ kaStatus = "none"
    /\ stFired = FALSE /\ stPrev = -1 /\ lastEmit = -1 /\ lastPrev = 0
    /\ connectOk = "none" /\ mcalls = <<>> /\ argWait = 0
    /\ pcConv = "off" /\ cvMs = 0 /\ cvTicks = 0 /\ cvBack = 0

\* the conversion functions on their own: a millisecond value is converted to
\* ticks at the session rate with MS2TS and back with TS2MS
ConvInit ==
    /\ status = "unset"
    /\ now = 0 /\ start = 0 /\ last = 0 /\ frames = 0 /\ last_keepalive = 0
    /\ iterate = TRUE /\ data = 0
    /\ fileLen = 0
    /\ remaining = fileLen
    /\ interactive = FALSE
    /\ key = "none" /\ hnow = 0 /\ hstart_at = 0
    /\ pcMain = "args" /\ pcKey = "off" /\ exitCode = -1
    /\ clock = ClockStart /\ ticks = 0
    /\ is_playing = FALSE
    /\ latency \in Latencies
    /\ stopCalled = FALSE
    /\ keysLeft = MaxKeys
    /\ hcalls = <<>> /\ hstatus0 = "none"
    /\ exitRequested = FALSE /\ halted = FALSE /\ raceSend = FALSE
    /\ seenStatus = "none" /\ seenAccept = "none" /\ seenRemaining = -1
    /\ sentThis = 0 /\ totalSent = 0
    /\ seenPlaying = "none"
    /\ chunksSent = 0
    /\ kaFired = FALSE /\ kaPrev = 0 /\ kaStatus = "none"
    /\ stFired = FALSE /\ stPrev = -1 /\ lastEmit = -1 /\ lastPrev = 0
    /\ connectOk = "none" /\ mcalls = <<>> /\ argWait = 0
    /\ pcConv = "ms" /\ cvMs \in MsValues /\ cvTicks = 0 /\ cvBack = 0

\* MS2TS(ms, 44100)
ConvToTicks ==
    /\ pcConv = "ms"
    /\ cvTicks' = MS2TS(cvMs, SampleRate)
    /\ pcConv' = "ts"
    /\ UNCHANGED <<cvMs, cvBack, progVars, envVars, keyObs, loopObs, mainObs>>

\* TS2MS(ticks, 44100)
ConvToMs ==
    /\ pcConv = "ts"
    /\ cvBack' = TS2MS(cvTicks, SampleRate)
    /\ pcConv' = "done"
    /\ UNCHANGED <<cvMs, cvTicks, progVars, envVars, keyObs, loopObs, mainObs>>

ConvNext == ConvToTicks \/ ConvToMs

ConvSpec == ConvInit /\ [][ConvNext]_vars

FairSpec ==
    /\ LiveInit
    /\ [][Next]_vars
    /\ WF_vars(MainStep)

\* ------------------------------------------------------------------ claims
HandlerDone == pcKey = "ret"
StopBranchPcs == {"s_stop", "s_flush", "s_status", "s_exit"}
LoopBodyPcs == {"check", "accept", "read", "send", "iter"}
LoopExitPcs == {"close", "destroy", "exiting", "done"}

\* C1: a pause key handled while the status is PLAYING invokes pause() and
\* then flush() on the client, in that order, and the status becomes PAUSED.
C1_PauseFromPlaying ==
    (HandlerDone /\ key = "p" /\ hstatus0 = PLAYING)
        => (hcalls = << <<"pause", 0>>, <<"flush", 0>> >> /\ status = PAUSED)

C1_Witness == HandlerDone /\ key = "p" /\ hstatus0 = PLAYING /\ Len(hcalls) = 2

\* C2: a pause key handled while the status is PAUSED or STOPPED is a no-op:
\* no client method is invoked and the status is unchanged.
C2_PauseNoOp ==
    (HandlerDone /\ key = "p" /\ hstatus0 \in {PAUSED, STOPPED})
        => (hcalls = <<>> /\ status = hstatus0)

C2_Witness == HandlerDone /\ key = "p" /\ hstatus0 = PAUSED /\ status = PAUSED

\* C3: a stop or quit key handled in any status invokes stop() and then
\* flush(), in that order, sets the status to STOPPED and requests exit.
C3_StopFromAny ==
    (key \in {"s", "q"} /\ pcKey \notin StopBranchPcs)
        => /\ hcalls = << <<"stop", 0>>, <<"flush", 0>> >>
           /\ status = STOPPED
           /\ exitRequested

C3_Witness ==
    /\ key = "q" /\ pcKey \notin StopBranchPcs
    /\ hstatus0 = PAUSED /\ status = STOPPED /\ exitRequested

\* C4: a restart key handled in any status invokes start_at exactly once, with
\* now + MS2NTP(200) - TS2NTP(latency, rate) for the now read by the handler,
\* invokes no flush, and the status becomes PLAYING.
C4_Restart ==
    (HandlerDone /\ key = "r")
        => /\ hcalls = << <<"start_at",
                            hnow + MS2NTP(200) - TS2NTP(latency, SampleRate)>> >>
           /\ status = PLAYING

C4_Witness ==
    /\ HandlerDone /\ key = "r" /\ hstatus0 = PAUSED
    /\ TS2NTP(latency, SampleRate) > 0 /\ hnow > ClockStart /\ Len(hcalls) = 1

\* C5: once the status is STOPPED it stays STOPPED.
C5_StoppedTerminal == [][status = STOPPED => status' = STOPPED]_vars

C5_Witness ==
    /\ status = STOPPED /\ exitRequested /\ keysLeft > 0
    /\ pcMain \in LoopBodyPcs /\ pcKey = "dead"

\* C6: once the listener has invoked pause() or stop(), the loop invokes no
\* send_chunk until a later restart has been handled.
C6_NoSendAfterHalt == ~raceSend

\* C7: the loop is left only after client.is_playing was read as false at the
\* end of an iteration, never because of PAUSED or an exhausted source.
C7_ExitOnlyWhenNotPlaying == pcMain \in LoopExitPcs => seenPlaying = "false"

C7_Witness ==
    /\ pcMain = "close" /\ seenPlaying = "false"
    /\ remaining > 0 /\ status = PLAYING

C7_WitnessIdle ==
    /\ pcMain = "top" /\ seenPlaying = "true" /\ iterate
    /\ remaining = 0 /\ status = PAUSED

\* C8: an iteration sends a chunk iff the status read was PLAYING,
\* accept_frames() answered true and the source had bytes left; the bytes sent
\* are exactly the chunks of those iterations and frames is that total
\* divided by 4 (integer division).
SendExpected ==
    seenStatus = PLAYING /\ seenAccept = "true" /\ seenRemaining > 0

C8_SendIff ==
    /\ pcMain = "iter" =>
         sentThis = (IF SendExpected THEN Min(MAX_SAMPLES_PER_CHUNK * 4, seenRemaining) ELSE 0)
    /\ pcMain \in {"top", "check", "accept", "read", "iter"} \cup LoopExitPcs =>
         /\ totalSent = fileLen - remaining
         /\ frames = totalSent \div 4

C8_Witness ==
    /\ pcMain = "iter" /\ sentThis = 2 /\ totalSent = ChunkBytes + 2
    /\ frames = MAX_SAMPLES_PER_CHUNK

C8_WitnessSkip ==
    /\ pcMain = "iter" /\ seenAccept = "false" /\ sentThis = 0 /\ totalSent > 0
    /\ remaining > 0

\* C9: after a stop or quit key has been handled the main thread terminates
\* in every execution: the loop exits, disconnect and destroy run, the exit
\* status is 0.
C9_StopTerminates == exitRequested ~> (pcMain = "done" /\ exitCode = 0)

\* C10: keepalive() is invoked in an iteration iff NTP2MS(now - last_keepalive)
\* >= 30000; then last_keepalive becomes that now, otherwise it is unchanged;
\* the status plays no part.
C10_Keepalive ==
    pcMain = "check" =>
        /\ kaFired <=> (NTP2MS(now - kaPrev) >= 30000)
        /\ kaFired => last_keepalive = now
        /\ ~kaFired => last_keepalive = kaPrev

C10_Witness ==
    /\ pcMain = "check" /\ kaFired /\ kaStatus = PAUSED
    /\ NTP2MS(now - kaPrev) = 30000

C10_WitnessBelow ==
    /\ pcMain = "check" /\ ~kaFired /\ now - kaPrev = NtpScale /\ status = PLAYING

\* C11: the periodic status line is printed at most once per 1000 ms of clock
\* progress, and only in an iteration where frames > latency.
C11_StatusLine ==
    (pcMain = "check" /\ stFired) =>
        /\ frames > latency
        /\ stPrev >= 0 => NTP2MS(now - stPrev) >= 1000

C11_Witness ==
    /\ pcMain = "check" /\ stFired /\ stPrev >= 0
    /\ frames > latency

\* C13: for a source of N whole frames, once the source is exhausted exactly
\* ceil(N*4 / chunk_size) chunks were sent and frames = N; frames never
\* decreases and never exceeds N.
CeilDiv(a, b) == (a + b - 1) \div b
WholeFrames == fileLen % 4 = 0

C13_WholeSource ==
    /\ [](WholeFrames =>
            /\ frames <= fileLen \div 4
            /\ (remaining = 0 /\ pcMain /= "send") =>
                   /\ chunksSent = CeilDiv(fileLen, MAX_SAMPLES_PER_CHUNK * 4)
                   /\ frames = fileLen \div 4)
    /\ [][frames' >= frames]_vars

C13_Witness ==
    /\ WholeFrames /\ fileLen > MAX_SAMPLES_PER_CHUNK * 4
    /\ fileLen % (MAX_SAMPLES_PER_CHUNK * 4) /= 0
    /\ remaining = 0 /\ pcMain = "iter" /\ sentThis > 0
    /\ frames = fileLen \div 4

\* C17 (as stated): last is set to now in every iteration with
\* now - last >= 1000 ms, exactly 1000 ms included, and unchanged otherwise.
C17_UpdateAtLeast ==
    pcMain = "check" =>
        IF now - lastPrev >= MS2NTP(1000) THEN last = now ELSE last = lastPrev

\* C17 (amended): last is set to now in every iteration with
\* now - last > 1000 ms; in every other iteration, exactly 1000 ms included,
\* it is unchanged.
C17_UpdateStrict ==
    pcMain = "check" =>
        IF now - lastPrev > MS2NTP(1000) THEN last = now ELSE last = lastPrev

C17_Witness ==
    /\ pcMain = "check" /\ lastPrev > 0
    /\ now - lastPrev = MS2NTP(1000) /\ last = lastPrev

\* C18: no line printed by the loop reports a negative played time: the
\* status line and the keepalive line are printed only with frames >= latency.
C18_NoNegativeReport ==
    pcMain = "check" =>
        /\ stFired => frames >= latency
        /\ kaFired => frames >= latency

\* C12: when a start time or a wait is supplied, start_at is invoked before
\* streaming with (base or now) + MS2NTP(wait) - TS2NTP(latency, rate), base 0
\* meaning now; otherwise start_at is not invoked.
C12_DelayedStart ==
    pcMain = "begin" =>
        IF start /= 0 \/ argWait /= 0
        THEN mcalls = << <<"start_at",
                           (IF start /= 0 THEN start ELSE now) + MS2NTP(argWait)
                               - TS2NTP(latency, SampleRate)>> >>
        ELSE mcalls = <<>>

C12_Witness ==
    /\ pcMain = "begin" /\ start /= 0 /\ start /= now /\ argWait /= 0
    /\ Len(mcalls) = 1 /\ TS2NTP(latency, SampleRate) > 0

C12_WitnessNoBase ==
    /\ pcMain = "begin" /\ start = 0 /\ argWait /= 0 /\ Len(mcalls) = 1

\* C14: handling a key leaves frames, last and last_keepalive unchanged.
C14_CursorOwnedByLoop ==
    [][(pcKey /= "off" /\ pcKey' /= pcKey)
           => UNCHANGED <<frames, last, last_keepalive>>]_vars

C14_Witness ==
    /\ HandlerDone /\ key = "p" /\ hstatus0 = PLAYING
    /\ frames > 0 /\ last > 0 /\ last_keepalive > 0

\* C15: if connect returns false, destroy() is invoked and the process exits
\* with status 1; no start_at, send_chunk, keepalive, pause, stop or flush is
\* issued and the listener is never started.
C15_ConnectFailure ==
    connectOk = "false" =>
        /\ pcMain \in {"failed", "aborted"}
        /\ pcKey = "off"
        /\ hcalls = <<>> /\ ~stopCalled /\ ~halted
        /\ chunksSent = 0 /\ ~kaFired /\ last_keepalive = 0
        /\ pcMain = "failed" => (mcalls = <<>> /\ exitCode = -1)
        /\ pcMain = "aborted" => (mcalls = << <<"destroy", 0>> >> /\ exitCode = 1)

C15_Witness ==
    /\ connectOk = "false" /\ pcMain = "aborted" /\ exitCode = 1
    /\ mcalls = << <<"destroy", 0>> >>

\* C19: the listener invokes no client method after the main thread has
\* invoked disconnect() or destroy(); disconnect() and destroy() are invoked
\* once each, in that order.
C19_NoCallAfterTeardown ==
    /\ [](pcMain = "done" => mcalls = << <<"disconnect", 0>>, <<"destroy", 0>> >>)
    /\ [][Len(hcalls') > Len(hcalls) => pcMain \notin {"destroy", "exiting", "done"}]_vars

\* C20: once a restart is being handled from PAUSED, the loop neither sees
\* the status as PLAYING nor sends a chunk before start_at has been invoked.
RestartPendingPcs == {"r_now", "r_status", "r_start"}

C20_NoSendBeforeStartAt ==
    [][(pcKey \in RestartPendingPcs /\ hstatus0 = PAUSED) =>
           /\ ~(pcMain = "send" /\ pcMain' = "iter")
           /\ ~(pcMain = "check" /\ pcMain' = "accept")]_vars

\* C16: 1000 ms converted to ticks at 44100 Hz and back is exactly 1000 ms;
\* for every millisecond value of the range the round trip loses at most the
\* one unit that truncation toward zero can take, and never gains.
C16_RoundTrip ==
    pcConv = "done" =>
        /\ cvBack <= cvMs /\ cvMs - cvBack <= 1
        /\ cvMs = 1000 => (cvTicks = SampleRate /\ cvBack = 1000)

C16_Witness == pcConv = "done" /\ cvMs = 1000 /\ cvTicks = SampleRate /\ cvBack = 1000

C16_WitnessTruncated == pcConv = "done" /\ cvBack = cvMs - 1

====
